---- MODULE Spec2Model ----
(***************************************************************************)
(* A model of src/main.rs: the listing scraper's orchestrator loop, its    *)
(* field extractors (extract_title, extract_link, clean_text) and the      *)
(* per-card detail fetch.                                                  *)
(*                                                                         *)
(* Strings are sequences of one-character strings, so that clean_text,     *)
(* starts_with and format! are computed and not assumed.  Option<T> is a   *)
(* sequence of length at most one: None is <<>> and Some(x) is <<x>>.      *)
(* A card (an ElementRef) is a function from selector text to the          *)
(* sequence of descendant elements the selector matches, in document       *)
(* order; an element is a record of its text and its alt/href attributes.  *)
(***************************************************************************)
EXTENDS Integers, Sequences, FiniteSets, TLC

VARIABLES
    pc,        \* position of main (or of the extractor harness)
    env,       \* what the outside world does to the listing request
    nCards,    \* number of elements doc.select(&item_sel) yields
    i,         \* number of cards the for loop has taken from the iterator
    seen,      \* per card taken so far: does it carry an extractable title
    item,      \* the card of the current iteration (the extractor's input)
    title,     \* local `title` of the iteration
    price,     \* local `price` of the iteration
    link,      \* local `link` of the iteration
    shown,     \* local `shown` of main
    printed,   \* the report lines printed so far: <<[rank, card]>>
    fetched,   \* the detail fetches issued so far: <<[rank, card]>>
    url,       \* the url of the detail request issued last
    inFlight,  \* number of detail requests awaiting their response
    detail,    \* local `detail` of the iteration: Result<Detail>
    sem,       \* local `sem` of the iteration: the semaphore
    permit,    \* number of permits the iteration holds
    out,       \* the last block printed on standard output
    debug,     \* what happened to amazon_debug.html
    status,    \* the exit status of the process
    ret        \* return value of the extractor under test

vars == <<pc, env, nCards, i, seen, item, title, price, link, shown, printed,
          fetched, url, inFlight, detail, sem, permit, out, debug, status, ret>>

----------------------------------------------------------------------------
(* Bounds and program constants *)

MaxCards == 11

ShowCap == 10

SemPermits == 3

----------------------------------------------------------------------------
(* Option and strings *)

None == <<>>

Some(x) == <<x>>

NA == <<"N", "/", "A">>

Origin == <<"h","t","t","p","s",":","/","/","w","w","w",".",
            "a","m","a","z","o","n",".","c","o","m">>

HttpPrefix == <<"h","t","t","p">>

is_whitespace(c) == c \in {" ", "\t", "\n", "\r"}

\* str::split_whitespace: the maximal runs of non-whitespace characters
RECURSIVE split_whitespace(_)
split_whitespace(s) ==
    IF s = <<>> THEN <<>>
    ELSE IF is_whitespace(Head(s)) THEN split_whitespace(Tail(s))
    ELSE LET ends == {k \in 1..Len(s) : k = Len(s) \/ is_whitespace(s[k + 1])}
             n == CHOOSE k \in ends : \A j \in ends : k <= j
         IN  <<SubSeq(s, 1, n)>> \o split_whitespace(SubSeq(s, n + 1, Len(s)))

\* [&str]::join
RECURSIVE join(_, _)
join(ws, sep) ==
    IF ws = <<>> THEN <<>>
    ELSE IF Len(ws) = 1 THEN ws[1]
    ELSE ws[1] \o sep \o join(Tail(ws), sep)

clean_text(s) == join(split_whitespace(s), <<" ">>)

starts_with(s, p) == Len(s) >= Len(p) /\ SubSeq(s, 1, Len(p)) = p

----------------------------------------------------------------------------
(* Selectors and elements *)

title_sels == << "h2 a span",
                 "a.a-link-normal.s-line-clamp-2 span",
                 "span.a-size-base-plus.a-color-base.a-text-normal",
                 "span.a-size-medium.a-color-base.a-text-normal" >>

img_alt_sel == "img.s-image"

link_sels == << "h2 a",
                "a.a-link-normal.s-no-outline",
                "a.a-link-normal[href*=/dp/]" >>

price_sel == "span.a-price span.a-offscreen"

Selectors == {title_sels[k] : k \in 1..Len(title_sels)}
             \cup {link_sels[k] : k \in 1..Len(link_sels)}
             \cup {img_alt_sel, price_sel}

\* item.select(sel): the matching descendants in document order
select(el, sel) == el[sel]

\* Iterator::next on a selection
next(matches) == IF matches = <<>> THEN None ELSE Some(matches[1])

\* element.value().attr(name)
attr(el, name) == IF name = "alt" THEN el.alt ELSE el.href

\* el.text().collect::<String>()
text(el) == el.text

----------------------------------------------------------------------------
(* extract_title, main.rs 10-30 *)

RECURSIVE title_from_chain(_, _)
title_from_chain(it, sels) ==
    IF sels = <<>> THEN None
    ELSE LET el == next(select(it, Head(sels)))
         IN  IF el # None /\ clean_text(text(el[1])) # <<>>
             THEN Some(clean_text(text(el[1])))
             ELSE title_from_chain(it, Tail(sels))

title_from_alt(it, img_sel) ==
    LET img == next(select(it, img_sel))
    IN  IF img # None /\ attr(img[1], "alt") # None
           /\ clean_text(attr(img[1], "alt")[1]) # <<>>
        THEN Some(clean_text(attr(img[1], "alt")[1]))
        ELSE None

\* a plausible slip: the image alt is tried before the selector chain
extract_title_AltFirst(it, sels, img_sel) ==
    IF title_from_alt(it, img_sel) # None
    THEN title_from_alt(it, img_sel)
    ELSE title_from_chain(it, sels)

extract_title(it, sels, img_sel) ==
    IF title_from_chain(it, sels) # None
    THEN title_from_chain(it, sels)
    ELSE title_from_alt(it, img_sel)

----------------------------------------------------------------------------
(* extract_link, main.rs 36-49 *)

\* a plausible slip: the origin is never prefixed
extract_link_NoPrefix(it, sels) ==
    LET hits == {k \in 1..Len(sels) :
                    /\ select(it, sels[k]) # <<>>
                    /\ attr(select(it, sels[k])[1], "href") # None}
    IN  IF hits = {} THEN None
        ELSE LET k == CHOOSE h \in hits : \A g \in hits : h <= g
             IN  Some(attr(select(it, sels[k])[1], "href")[1])

RECURSIVE extract_link(_, _)
extract_link(it, sels) ==
    IF sels = <<>> THEN None
    ELSE LET a == next(select(it, Head(sels)))
         IN  IF a # None /\ attr(a[1], "href") # None
             THEN LET href == attr(a[1], "href")[1]
                  IN  Some(IF starts_with(href, HttpPrefix)
                           THEN href
                           ELSE Origin \o href)
             ELSE extract_link(it, Tail(sels))

----------------------------------------------------------------------------
(* The documents the program is run on *)

Blank == <<" ", "\n", " ">>

RawAb == <<" ", "A", " ", " ", "b", "\n">>

RawCd == <<"C", "\t", "d">>

RawPrice == <<"$", "5">>

HrefRel == <<"/", "d", "p", "/", "B">>

HrefHttp == <<"h","t","t","p",":","/","/","x">>

HrefHttps == <<"h","t","t","p","s",":","/","/","x">>

HrefFtp == <<"f","t","p",":","/","/","x">>

HrefHttpDir == <<"h","t","t","p","d","/","x">>

Span(t) == [text |-> t, alt |-> None, href |-> None]

Img(a) == [text |-> <<>>, alt |-> a, href |-> None]

Anchor(h) == [text |-> <<>>, alt |-> None, href |-> h]

\* the card whose k-th title selector matches t[k], whose image selector
\* matches img, whose k-th link selector matches l[k], whose price selector
\* matches p
Card(t, img, l, p) ==
    [s \in Selectors |->
        IF \E k \in 1..Len(title_sels) : title_sels[k] = s
        THEN t[CHOOSE k \in 1..Len(title_sels) : title_sels[k] = s]
        ELSE IF \E k \in 1..Len(link_sels) : link_sels[k] = s
        THEN l[CHOOSE k \in 1..Len(link_sels) : link_sels[k] = s]
        ELSE IF s = img_alt_sel THEN img
        ELSE p]

NoItem == [s \in Selectors |-> <<>>]

TitleMatches == { <<>>, <<Span(Blank)>>, <<Span(RawAb)>>,
                  <<Span(Blank), Span(RawAb)>>, <<Span(RawCd), Span(RawAb)>> }

ImgMatches == { <<>>, <<Img(None)>>, <<Img(Some(Blank))>>, <<Img(Some(RawCd))>>,
                <<Img(None), Img(Some(RawCd))>> }

LinkMatches == { <<>>, <<Anchor(None)>>, <<Anchor(Some(HrefRel))>>,
                 <<Anchor(None), Anchor(Some(HrefRel))>>,
                 <<Anchor(Some(HrefHttp))>>, <<Anchor(Some(HrefHttps))>>,
                 <<Anchor(Some(HrefFtp))>>, <<Anchor(Some(HrefHttpDir))>> }

NoLinks == [k \in 1..Len(link_sels) |-> <<>>]

NoTitles == [k \in 1..Len(title_sels) |-> <<>>]

\* inputs of extract_title
TitleCards == { Card(t, img, NoLinks, <<>>) :
                  t \in [1..Len(title_sels) -> TitleMatches], img \in ImgMatches }

\* inputs of extract_link
LinkCards == { Card(NoTitles, <<>>, l, <<>>) :
                  l \in [1..Len(link_sels) -> LinkMatches] }

\* the cards of a listing page
CardBlank == Card(<<<<Span(Blank)>>, <<>>, <<>>, <<>>>>, <<Img(None)>>,
                  <<<<Anchor(Some(HrefRel))>>, <<>>, <<>>>>, <<Span(RawPrice)>>)

CardAltOnly == Card(<<<<>>, <<Span(Blank)>>, <<>>, <<>>>>, <<Img(Some(RawCd))>>,
                    <<<<Anchor(None)>>, <<>>, <<>>>>, <<>>)

CardFull == Card(<<<<Span(RawAb)>>, <<>>, <<>>, <<>>>>, <<Img(Some(RawCd))>>,
                 <<<<>>, <<Anchor(Some(HrefRel))>>, <<>>>>, <<Span(RawPrice)>>)

CardPool == {CardBlank, CardAltOnly, CardFull}

\* the detail pages: the matches of the two fixed selectors
rating_sel == "span.a-icon-alt"

review_count_sel == "#acrCustomerReviewText"

Page(r, c) == [s \in {rating_sel, review_count_sel} |->
                 IF s = rating_sel THEN r ELSE c]

DetailPages == { Page(<<Span(RawAb)>>, <<Span(RawCd)>>), Page(<<>>, <<>>) }

Envs == {"ok", "client", "request", "body"}

----------------------------------------------------------------------------
(* main, lines 79-98: client, listing request, body *)

Running == [code |-> "running", err |-> ""]

Success == [code |-> "success", err |-> ""]

Failure(msg) == [code |-> "failure", err |-> msg]

NoDetail == [ok |-> FALSE, rating_text |-> <<>>, review_count |-> <<>>, err |-> ""]

NoSem == [permits |-> 0, closed |-> FALSE]

NoLine == [kind |-> "none"]

\* the `?` operator in main: the error leaves main, the process exits non-zero
Abort(msg) ==
    /\ pc' = "exit"
    /\ status' = Failure(msg)

Init ==
    /\ pc = "build_client"
    /\ env \in Envs
    /\ nCards \in 0..MaxCards
    /\ i = 0
    /\ seen = <<>>
    /\ item = NoItem
    /\ title = <<>>
    /\ price = <<>>
    /\ link = <<>>
    /\ shown = 0
    /\ printed = <<>>
    /\ fetched = <<>>
    /\ url = <<>>
    /\ inFlight = 0
    /\ detail = NoDetail
    /\ sem = NoSem
    /\ permit = 0
    /\ out = NoLine
    /\ debug = "untouched"
    /\ status = Running
    /\ ret = None

BuildClient ==
    /\ pc = "build_client"
    /\ env # "client"
    /\ pc' = "send"
    /\ UNCHANGED <<env, nCards, i, seen, item, title, price, link, shown, printed,
                   fetched, url, inFlight, detail, sem, permit, out, debug,
                   status, ret>>

BuildClientFail ==
    /\ pc = "build_client"
    /\ env = "client"
    /\ Abort("build client failed")
    /\ UNCHANGED <<env, nCards, i, seen, item, title, price, link, shown, printed,
                   fetched, url, inFlight, detail, sem, permit, out, debug, ret>>

\* the request is answered: status and final URL are printed
SendRequest ==
    /\ pc = "send"
    /\ env # "request"
    /\ out' = [kind |-> "status"]
    /\ pc' = "read_body"
    /\ UNCHANGED <<env, nCards, i, seen, item, title, price, link, shown, printed,
                   fetched, url, inFlight, detail, sem, permit, debug, status, ret>>

\* a plausible slip: the failure of the listing request is swallowed
SendRequestFailSwallowed ==
    /\ pc = "send"
    /\ env = "request"
    /\ pc' = "write_debug"
    /\ UNCHANGED <<env, nCards, i, seen, item, title, price, link, shown, printed,
                   fetched, url, inFlight, detail, sem, permit, out, debug,
                   status, ret>>

SendRequestFail ==
    /\ pc = "send"
    /\ env = "request"
    /\ Abort("request failed")
    /\ UNCHANGED <<env, nCards, i, seen, item, title, price, link, shown, printed,
                   fetched, url, inFlight, detail, sem, permit, out, debug, ret>>

ReadBody ==
    /\ pc = "read_body"
    /\ env # "body"
    /\ pc' = "write_debug"
    /\ UNCHANGED <<env, nCards, i, seen, item, title, price, link, shown, printed,
                   fetched, url, inFlight, detail, sem, permit, out, debug,
                   status, ret>>

ReadBodyFail ==
    /\ pc = "read_body"
    /\ env = "body"
    /\ Abort("read body failed")
    /\ UNCHANGED <<env, nCards, i, seen, item, title, price, link, shown, printed,
                   fetched, url, inFlight, detail, sem, permit, out, debug, ret>>

\* lines 98-124: std::fs::write(..).ok() is called and whatever it returns
\* is discarded; then the document is parsed, the selectors are built and
\* the heading is printed
WriteDebugAndParse ==
    /\ pc = "write_debug"
    /\ debug' = "write attempted"
    /\ out' = [kind |-> "heading"]
    /\ pc' = "loop"
    /\ UNCHANGED <<env, nCards, i, seen, item, title, price, link, shown, printed,
                   fetched, url, inFlight, detail, sem, permit, status, ret>>

----------------------------------------------------------------------------
(* main, lines 126-162: the loop over the cards *)

\* what a card offers, read off the document: the normalised text of the
\* first match of a title selector, the normalised alt of the first image
FirstText(it, sel) ==
    IF it[sel] = <<>> THEN <<>> ELSE clean_text(it[sel][1].text)

AltText(it) ==
    IF it[img_alt_sel] = <<>> THEN <<>>
    ELSE IF it[img_alt_sel][1].alt = None THEN <<>>
    ELSE clean_text(it[img_alt_sel][1].alt[1])

Titled(it) ==
    \/ \E k \in 1..Len(title_sels) : FirstText(it, title_sels[k]) # <<>>
    \/ AltText(it) # <<>>

\* lines 133-137
extract_price(it) ==
    LET e == next(select(it, price_sel))
    IN  IF e # None THEN clean_text(text(e[1])) ELSE NA

\* the locals of an iteration go out of scope
DropLocals ==
    /\ item' = NoItem
    /\ title' = <<>>
    /\ price' = <<>>
    /\ link' = <<>>
    /\ detail' = NoDetail
    /\ sem' = NoSem
    /\ permit' = 0

\* a plausible slip: a card without a title still takes a rank
SkipCardTakesRank ==
    /\ pc = "loop"
    /\ i < nCards
    /\ \E c \in CardPool :
          /\ extract_title(c, title_sels, img_alt_sel) = None
          /\ seen' = Append(seen, Titled(c))
    /\ i' = i + 1
    /\ shown' = shown + 1
    /\ pc' = "loop"
    /\ UNCHANGED <<env, nCards, item, title, price, link, printed, fetched,
                   url, inFlight, detail, sem, permit, out, debug, status, ret>>

\* lines 127-131: the next card has no title: continue
SkipCard ==
    /\ pc = "loop"
    /\ i < nCards
    /\ \E c \in CardPool :
          /\ extract_title(c, title_sels, img_alt_sel) = None
          /\ seen' = Append(seen, Titled(c))
    /\ i' = i + 1
    /\ pc' = "loop"
    /\ UNCHANGED <<env, nCards, item, title, price, link, shown, printed, fetched,
                   url, inFlight, detail, sem, permit, out, debug, status, ret>>

\* lines 127-143: the next card has a title: price, link, count, print
ShowCard ==
    /\ pc = "loop"
    /\ i < nCards
    /\ \E c \in CardPool :
          LET t == extract_title(c, title_sels, img_alt_sel)
              l == extract_link(c, link_sels)
          IN  /\ t # None
              /\ seen' = Append(seen, Titled(c))
              /\ item' = c
              /\ title' = t[1]
              /\ price' = extract_price(c)
              /\ link' = IF l # None THEN l[1] ELSE NA
    /\ i' = i + 1
    /\ shown' = shown + 1
    /\ printed' = Append(printed, [rank |-> shown', card |-> i'])
    /\ out' = [kind |-> "item", rank |-> shown', title |-> title',
               price |-> price', link |-> link']
    /\ pc' = "cap_check"
    /\ UNCHANGED <<env, nCards, fetched, url, inFlight, detail, sem, permit,
                   debug, status, ret>>

\* the iterator is exhausted
LoopEnd ==
    /\ pc = "loop"
    /\ i = nCards
    /\ pc' = "after_loop"
    /\ UNCHANGED <<env, nCards, i, seen, item, title, price, link, shown, printed,
                   fetched, url, inFlight, detail, sem, permit, out, debug,
                   status, ret>>

\* plausible slips in the cap test of line 145
CapReachedNever == FALSE

CapReachedLate == shown > ShowCap

CapReached == shown >= ShowCap

\* lines 145-147: break
Break ==
    /\ pc = "cap_check"
    /\ CapReached
    /\ DropLocals
    /\ pc' = "after_loop"
    /\ UNCHANGED <<env, nCards, i, seen, shown, printed, fetched, url, inFlight,
                   out, debug, status, ret>>

\* a plausible slip: the semaphore is built without permits
NewSemaphoreEmpty == [permits |-> 0, closed |-> FALSE]

\* Semaphore::new(3)
NewSemaphore == [permits |-> SemPermits, closed |-> FALSE]

\* line 148: a semaphore is made for this iteration
MakeSemaphore ==
    /\ pc = "cap_check"
    /\ ~CapReached
    /\ sem' = NewSemaphore
    /\ pc' = "acquire"
    /\ UNCHANGED <<env, nCards, i, seen, item, title, price, link, shown, printed,
                   fetched, url, inFlight, detail, permit, out, debug, status, ret>>

\* line 149: acquire_owned().await? : an error if the semaphore is closed,
\* a wait while it has no permit, a permit otherwise
Acquire ==
    /\ pc = "acquire"
    /\ IF sem.closed
       THEN /\ Abort("semaphore closed")
            /\ UNCHANGED <<sem, permit>>
       ELSE /\ sem.permits > 0
            /\ sem' = [sem EXCEPT !.permits = @ - 1]
            /\ permit' = permit + 1
            /\ pc' = "fetch_detail"
            /\ UNCHANGED status
    /\ UNCHANGED <<env, nCards, i, seen, item, title, price, link, shown, printed,
                   fetched, url, inFlight, detail, out, debug, ret>>

\* a plausible slip: no detail request for a card without a link
SendDetailSkipsNA ==
    /\ pc = "fetch_detail"
    /\ IF link = NA
       THEN /\ detail' = [NoDetail EXCEPT !.err = "no link"]
            /\ pc' = "drop_permit"
            /\ UNCHANGED <<fetched, url, inFlight>>
       ELSE /\ url' = link
            /\ fetched' = Append(fetched, [rank |-> shown, card |-> i])
            /\ inFlight' = inFlight + 1
            /\ pc' = "await_detail"
            /\ UNCHANGED detail
    /\ UNCHANGED <<env, nCards, i, seen, item, title, price, link, shown, printed,
                   sem, permit, out, debug, status, ret>>

\* lines 150, 51-54: fetch_detail(&client, &link) sends its request
SendDetail ==
    /\ pc = "fetch_detail"
    /\ url' = link
    /\ fetched' = Append(fetched, [rank |-> shown, card |-> i])
    /\ inFlight' = inFlight + 1
    /\ pc' = "await_detail"
    /\ UNCHANGED <<env, nCards, i, seen, item, title, price, link, shown, printed,
                   detail, sem, permit, out, debug, status, ret>>

\* lines 64-74: the text of the first match, or N/A
field(page, sel) ==
    LET e == next(select(page, sel))
    IN  IF e # None THEN clean_text(text(e[1])) ELSE NA

\* lines 55-76: the response arrives and its body is read and parsed
DetailOk ==
    /\ pc = "await_detail"
    /\ \E page \in DetailPages :
          detail' = [ok |-> TRUE,
                     rating_text |-> field(page, rating_sel),
                     review_count |-> field(page, review_count_sel),
                     err |-> ""]
    /\ inFlight' = inFlight - 1
    /\ pc' = "drop_permit"
    /\ UNCHANGED <<env, nCards, i, seen, item, title, price, link, shown, printed,
                   fetched, url, sem, permit, out, debug, status, ret>>

\* lines 55-58: the request or the body read fails
DetailErr ==
    /\ pc = "await_detail"
    /\ \E msg \in {"request detail failed", "read detail body failed"} :
          detail' = [NoDetail EXCEPT !.err = msg]
    /\ inFlight' = inFlight - 1
    /\ pc' = "drop_permit"
    /\ UNCHANGED <<env, nCards, i, seen, item, title, price, link, shown, printed,
                   fetched, url, sem, permit, out, debug, status, ret>>

\* line 151: drop(permit) gives the permit back to the semaphore
DropPermit ==
    /\ pc = "drop_permit"
    /\ sem' = [sem EXCEPT !.permits = @ + permit]
    /\ permit' = 0
    /\ pc' = "match_detail"
    /\ UNCHANGED <<env, nCards, i, seen, item, title, price, link, shown, printed,
                   fetched, url, inFlight, detail, out, debug, status, ret>>

\* a plausible slip: the detail error leaves main through `?`
ReportDetailPropagates ==
    /\ pc = "match_detail"
    /\ IF detail.ok
       THEN /\ out' = [kind |-> "detail", rank |-> shown,
                       rating |-> detail.rating_text,
                       reviews |-> detail.review_count]
            /\ pc' = "loop"
            /\ UNCHANGED status
       ELSE /\ Abort(detail.err)
            /\ UNCHANGED out
    /\ DropLocals
    /\ UNCHANGED <<env, nCards, i, seen, shown, printed, fetched, url, inFlight,
                   debug, ret>>

\* lines 153-162: the outcome is printed and the iteration ends
ReportDetail ==
    /\ pc = "match_detail"
    /\ out' = IF detail.ok
              THEN [kind |-> "detail", rank |-> shown,
                    rating |-> detail.rating_text,
                    reviews |-> detail.review_count]
              ELSE [kind |-> "detail fetch failed", rank |-> shown,
                    err |-> detail.err]
    /\ DropLocals
    /\ pc' = "loop"
    /\ UNCHANGED <<env, nCards, i, seen, shown, printed, fetched, url, inFlight,
                   debug, status, ret>>

\* plausible slip in the test of line 164
NoneShownByCards == nCards = 0

NoneShown == shown = 0

\* lines 164-170
Finish ==
    /\ pc = "after_loop"
    /\ out' = IF NoneShown THEN [kind |-> "guidance"] ELSE out
    /\ status' = Success
    /\ pc' = "exit"
    /\ UNCHANGED <<env, nCards, i, seen, item, title, price, link, shown, printed,
                   fetched, url, inFlight, detail, sem, permit, debug, ret>>

Next ==
    \/ BuildClient \/ BuildClientFail
    \/ SendRequest \/ SendRequestFail
    \/ ReadBody \/ ReadBodyFail
    \/ WriteDebugAndParse
    \/ SkipCard \/ ShowCard \/ LoopEnd
    \/ Break \/ MakeSemaphore \/ Acquire
    \/ SendDetail \/ DetailOk \/ DetailErr \/ DropPermit \/ ReportDetail
    \/ Finish

Spec == Init /\ [][Next]_vars

----------------------------------------------------------------------------
(* The extractors on their own: one card in, one Option<String> out *)

InitExtract(cards, at) ==
    /\ pc = at
    /\ item \in cards
    /\ env = "ok"
    /\ nCards = 0
    /\ i = 0
    /\ seen = <<>>
    /\ title = <<>>
    /\ price = <<>>
    /\ link = <<>>
    /\ shown = 0
    /\ printed = <<>>
    /\ fetched = <<>>
    /\ url = <<>>
    /\ inFlight = 0
    /\ detail = NoDetail
    /\ sem = NoSem
    /\ permit = 0
    /\ out = NoLine
    /\ debug = "untouched"
    /\ status = Running
    /\ ret = None

CallExtractTitle ==
    /\ pc = "call extract_title"
    /\ ret' = extract_title(item, title_sels, img_alt_sel)
    /\ pc' = "extract_title returned"
    /\ UNCHANGED <<env, nCards, i, seen, item, title, price, link, shown, printed,
                   fetched, url, inFlight, detail, sem, permit, out, debug, status>>

CallExtractLink ==
    /\ pc = "call extract_link"
    /\ ret' = extract_link(item, link_sels)
    /\ pc' = "extract_link returned"
    /\ UNCHANGED <<env, nCards, i, seen, item, title, price, link, shown, printed,
                   fetched, url, inFlight, detail, sem, permit, out, debug, status>>

InitTitle == InitExtract(TitleCards, "call extract_title")

InitLink == InitExtract(LinkCards, "call extract_link")

SpecTitle == InitTitle /\ [][CallExtractTitle]_vars

SpecLink == InitLink /\ [][CallExtractLink]_vars

----------------------------------------------------------------------------
(* Properties *)

Min(a, b) == IF a <= b THEN a ELSE b

Least(S) == CHOOSE k \in S : \A j \in S : k <= j

Ranks == {printed[k].rank : k \in 1..Len(printed)}

\* C1: the shown-count never exceeds 10, however many cards the listing
\* holds, and no report line carries a rank above 10.
C1_ShownAtMostCap ==
    /\ shown <= ShowCap
    /\ \A r \in Ranks : r <= ShowCap

C1_Witness ==
    /\ pc = "after_loop"
    /\ shown = ShowCap
    /\ i < nCards

\* C2: the card of rank 10 is printed, no detail request is ever issued for
\* it, and once it is printed the loop is left without another card being
\* taken from the iterator.
C2_CapBeforeFetch ==
    /\ \A k \in 1..Len(fetched) : fetched[k].rank < ShowCap
    /\ shown >= ShowCap =>
          /\ pc \in {"cap_check", "after_loop", "exit"}
          /\ Len(printed) = ShowCap
          /\ printed[ShowCap] = [rank |-> ShowCap, card |-> i]
          /\ pc = "cap_check" => out.kind = "item" /\ out.rank = ShowCap
          /\ inFlight = 0

C2_Witness ==
    /\ pc = "exit"
    /\ shown = ShowCap
    /\ Len(fetched) = ShowCap - 1
    /\ i < nCards
    /\ out.kind = "item"

\* the title selectors whose first match has non-empty normalised text
TitleHits(it) ==
    {k \in 1..Len(title_sels) : FirstText(it, title_sels[k]) # <<>>}

\* C3: extract_title returns the normalised text of the first match of the
\* first title selector for which that text is non-empty; only when there
\* is no such selector, the normalised alt of the first image if that is
\* non-empty; and nothing otherwise.
C3_TitleFirstNonEmpty ==
    pc = "extract_title returned" =>
        IF TitleHits(item) # {}
        THEN ret = Some(FirstText(item, title_sels[Least(TitleHits(item))]))
        ELSE IF AltText(item) # <<>>
        THEN ret = Some(AltText(item))
        ELSE ret = None

C3_Witness ==
    /\ pc = "extract_title returned"
    /\ item[title_sels[1]] # <<>>
    /\ 1 \notin TitleHits(item)
    /\ TitleHits(item) # {}
    /\ AltText(item) # <<>>
    /\ ret # Some(AltText(item))

\* the link selectors whose first match is an anchor carrying an href
LinkHits(it) ==
    {k \in 1..Len(link_sels) :
        /\ it[link_sels[k]] # <<>>
        /\ it[link_sels[k]][1].href # None}

FirstHref(it) == it[link_sels[Least(LinkHits(it))]][1].href[1]

SchemeChars == {"a","b","c","d","e","f","g","h","i","j","k","l","m","n","o",
                "p","q","r","s","t","u","v","w","x","y","z"}

\* the href starts with a URL scheme: letters, then a colon
HasScheme(h) ==
    \E k \in 2..Len(h) :
        /\ h[k] = ":"
        /\ \A j \in 1..(k - 1) : h[j] \in SchemeChars

BeginsHttp(h) ==
    /\ Len(h) >= 4
    /\ h[1] = "h" /\ h[2] = "t" /\ h[3] = "t" /\ h[4] = "p"

\* C4 as stated: the href of the first link selector whose first match
\* carries one is returned unchanged if it starts with a URL scheme and
\* prefixed with the origin otherwise; nothing if there is no such selector.
C4_AsStated ==
    pc = "extract_link returned" =>
        IF LinkHits(item) = {} THEN ret = None
        ELSE ret = Some(IF HasScheme(FirstHref(item))
                        THEN FirstHref(item)
                        ELSE Origin \o FirstHref(item))

\* C4, amended: the href of the first link selector whose first match
\* carries one is returned unchanged if it begins with the characters
\* "http" and prefixed with the origin otherwise, whatever scheme it has;
\* nothing if there is no such selector.
C4_LinkHttpPrefix ==
    pc = "extract_link returned" =>
        IF LinkHits(item) = {} THEN ret = None
        ELSE ret = Some(IF BeginsHttp(FirstHref(item))
                        THEN FirstHref(item)
                        ELSE Origin \o FirstHref(item))

C4_Witness ==
    /\ pc = "extract_link returned"
    /\ item[link_sels[1]] # <<>>
    /\ 1 \notin LinkHits(item)
    /\ ret = Some(Origin \o HrefRel)

PrintedCards == {printed[k].card : k \in 1..Len(printed)}

\* C5: after any prefix of the iteration the report lines are exactly the
\* titled cards taken so far, in document order, with ranks 1, 2, ..., shown;
\* no detail request belongs to a card without a title, and a step that
\* skips a card prints nothing, extracts no price or link and counts nothing.
C5_SkippedTakeNoRank ==
    /\ [](/\ Len(seen) = i
          /\ Len(printed) = shown
          /\ \A k \in 1..Len(printed) : printed[k].rank = k
          /\ \A k \in 1..(Len(printed) - 1) : printed[k].card < printed[k + 1].card
          /\ PrintedCards = {c \in 1..Len(seen) : seen[c]}
          /\ \A k \in 1..Len(fetched) : seen[fetched[k].card])
    /\ [][(i' = i + 1 /\ ~seen'[i']) =>
              /\ pc' = "loop"
              /\ UNCHANGED <<out, printed, fetched, shown, title, price, link,
                             url, inFlight>>]_vars

C5_Witness ==
    /\ pc = "exit"
    /\ seen = <<FALSE, TRUE, TRUE>>
    /\ printed = <<[rank |-> 1, card |-> 2], [rank |-> 2, card |-> 3]>>

\* C6: when a detail request or its body read fails, the failure line of
\* that card is printed, nothing is counted, the loop goes on with the next
\* card, and a run that has issued a detail request never exits with failure.
C6_DetailFailureIsPerItem ==
    /\ [][(pc = "match_detail" /\ ~detail.ok) =>
              /\ out' = [kind |-> "detail fetch failed", rank |-> shown,
                         err |-> detail.err]
              /\ pc' = "loop"
              /\ UNCHANGED <<shown, i, printed, fetched, status>>]_vars
    /\ [](fetched # <<>> => status.code # "failure")
    /\ [](pc = "exit" /\ fetched # <<>> => status = Success)

C6_Witness ==
    /\ pc = "loop"
    /\ out.kind = "detail fetch failed"
    /\ out.err = "read detail body failed"
    /\ i < nCards
    /\ status = Running

FatalMessage ==
    [e \in Envs |-> IF e = "client" THEN "build client failed"
                    ELSE IF e = "request" THEN "request failed"
                    ELSE IF e = "body" THEN "read body failed"
                    ELSE ""]

\* C7: the process exits with success unless the client cannot be built, the
\* listing request fails or its body cannot be read; in those cases it exits
\* with failure, no card has been taken, no report line printed, no detail
\* request issued and the debug file not touched.
C7_FatalOnlyBeforeCards ==
    /\ pc = "exit" => (status.code = "success" <=> env = "ok")
    /\ pc = "exit" => status.code \in {"success", "failure"}
    /\ status.code = "failure" => env # "ok" /\ status.err = FatalMessage[env]
    /\ env # "ok" =>
          /\ i = 0 /\ shown = 0
          /\ printed = <<>> /\ fetched = <<>>
          /\ debug = "untouched"
          /\ out.kind \in {"none", "status"}

C7_Witness ==
    /\ pc = "exit"
    /\ env = "body"
    /\ status = Failure("read body failed")
    /\ out.kind = "status"

\* C8: a run whose listing body was read attempts the debug write before it
\* takes any card; it prints the guidance exactly when it ends with a
\* shown-count of 0, in particular when no card taken had a title.
C8_GuidanceAndDebug ==
    /\ pc \notin {"build_client", "send", "read_body", "write_debug", "exit"}
          => debug = "write attempted"
    /\ i > 0 => debug = "write attempted"
    /\ pc = "exit" /\ status = Success =>
          /\ debug = "write attempted"
          /\ out.kind = "guidance" <=> shown = 0
          /\ (\A c \in 1..Len(seen) : ~seen[c]) => out.kind = "guidance"
    /\ out.kind = "guidance" => pc = "exit" /\ shown = 0

C8_Witness ==
    /\ pc = "exit"
    /\ out.kind = "guidance"
    /\ nCards >= 2
    /\ i = nCards
    /\ debug = "write attempted"

\* C9: the detail requests are, in order, one for each shown card of rank
\* below 10; a request is issued with the card's link, the sentinel N/A
\* when the card has no anchor with an href; a finished run has issued
\* min(shown, 9) requests.
C9_OneFetchPerShownBelowCap ==
    /\ \A k \in 1..Len(fetched) :
          /\ k <= Len(printed)
          /\ fetched[k] = printed[k]
          /\ fetched[k].rank = k
    /\ pc = "loop" => Len(fetched) = shown
    /\ pc = "exit" /\ status = Success =>
          Len(fetched) = Min(shown, ShowCap - 1)
    /\ pc \in {"await_detail", "drop_permit", "match_detail"} =>
          /\ Len(fetched) = shown
          /\ url = link
          /\ LinkHits(item) = {} => url = NA
          /\ LinkHits(item) # {} =>
                url \in {FirstHref(item), Origin \o FirstHref(item)}

C9_Witness ==
    /\ pc = "await_detail"
    /\ url = NA
    /\ inFlight = 1
    /\ Len(fetched) = 2

====
